---- MODULE Spec2Model ----
(***************************************************************************)
(* Model of the UP parser (src/src/lib.rs).  Text is a sequence of        *)
(* one-character strings; a line is the text of one element of the        *)
(* `lines` vector of parse_document.  The recursion parse_line ->          *)
(* parse_value -> parse_block / parse_list / parse_multiline is a stack   *)
(* of frames over the one shared cursor `pos`; one action is one          *)
(* iteration of the loop of the innermost open parser.                    *)
(***************************************************************************)
EXTENDS Integers, Sequences, FiniteSets, TLC

VARIABLES lines, pos, stack, nodes, keyLine, ret, pc, result

vars == <<lines, pos, stack, nodes, keyLine, ret, pc, result>>

\* ------------------------------------------------------------------ bounds
MaxLines == 4
MaxVal == 4
MaxKey == 5
MaxInner == 4

\* ------------------------------------------------------------ characters
NL == "\n"
CR == "\r"
\* the backtick character U+0060, which a TLA+ string cannot hold: one token stands for it
BT == "BT"
\* char::is_whitespace, restricted to the characters of the texts of the model
Whitespace == {" ", "\t", CR, NL}
Digits == {"0", "1", "2", "3", "4", "5", "6", "7", "8", "9"}

DigitVal(c) ==
  CASE c = "0" -> 0 [] c = "1" -> 1 [] c = "2" -> 2 [] c = "3" -> 3
    [] c = "4" -> 4 [] c = "5" -> 5 [] c = "6" -> 6 [] c = "7" -> 7
    [] c = "8" -> 8 [] OTHER -> 9

\* ------------------------------------------------------------ str helpers
\* a let binding of the code: F of the value of e, e evaluated once
With(e, F(_)) == CHOOSE r \in {F(v) : v \in {e}} : TRUE

\* s[from..] of Rust (0-based `from`): the text after the first `from` characters
DropChars(s, n) == SubSeq(s, n + 1, Len(s))
TakeChars(s, n) == SubSeq(s, 1, n)

\* str::find: the 1-based place of the first character in `set`, 0 when none
FindIn(s, set) ==
  LET hits == {i \in 1..Len(s) : s[i] \in set}
  IN IF hits = {} THEN 0 ELSE CHOOSE i \in hits : \A j \in hits : i <= j

\* str::trim
Trim(s) ==
  LET keep == {i \in 1..Len(s) : s[i] \notin Whitespace}
  IN IF keep = {} THEN <<>>
     ELSE LET a == CHOOSE i \in keep : \A j \in keep : i <= j
              b == CHOOSE i \in keep : \A j \in keep : i >= j
          IN SubSeq(s, a, b)

StartsWith(s, p) == Len(s) >= Len(p) /\ SubSeq(s, 1, Len(p)) = p
EndsWith(s, p) == Len(s) >= Len(p) /\ SubSeq(s, Len(s) - Len(p) + 1, Len(s)) = p

\* [String]::join("\n")
JoinNL(ls) ==
  LET joined[k \in 0..Len(ls)] ==
        IF k = 0 THEN <<>>
        ELSE IF k = 1 THEN ls[1]
        ELSE joined[k - 1] \o <<NL>> \o ls[k]
  IN joined[Len(ls)]

\* str::split(sep): k separators give k+1 pieces, empty pieces included
Split(s, sep) ==
  LET at == {i \in 1..Len(s) : s[i] = sep}
      n == Cardinality(at)
      \* the place of the k-th separator; 0 before the first, Len(s) + 1 after the last
      place(k) == IF k = 0 THEN 0
                  ELSE IF k > n THEN Len(s) + 1
                  ELSE CHOOSE i \in at : Cardinality({j \in at : j < i}) = k - 1
  IN [k \in 1..(n + 1) |-> SubSeq(s, place(k - 1) + 1, place(k) - 1)]

\* str::lines: pieces end at "\n"; a piece that ended at "\n" also loses one
\* "\r" before it; an empty last piece (text empty or ending in "\n") is no line
StripCR(s) == IF EndsWith(s, <<CR>>) THEN TakeChars(s, Len(s) - 1) ELSE s

StrLines(text) ==
  LET ps == Split(text, NL)
      n == Len(ps)
      body == [i \in 1..(n - 1) |-> StripCR(ps[i])]
  IN IF ps[n] = <<>> THEN body ELSE Append(body, ps[n])

\* ------------------------------------------------------------ data model
None == [some |-> FALSE, v |-> <<>>]
Some(s) == [some |-> TRUE, v |-> s]

EmptyMap == <<>>
VString(s) == [tag |-> "String", s |-> s, m |-> EmptyMap, l |-> <<>>]
VBlock(m) == [tag |-> "Block", s |-> <<>>, m |-> m, l |-> <<>>]
VList(l) == [tag |-> "List", s |-> <<>>, m |-> EmptyMap, l |-> l]

Node(key, ann, value) == [key |-> key, type_annotation |-> ann, value |-> value]

\* an insert that keeps the value of an already-present key
MapInsertKeepFirst(m, k, v) ==
  [x \in (DOMAIN m) \cup {k} |-> IF x \in DOMAIN m THEN m[x] ELSE v]

\* HashMap::insert: an already-present key is overwritten
MapInsert(m, k, v) == [x \in (DOMAIN m) \cup {k} |-> IF x = k THEN v ELSE m[x]]

Pending == [tag |-> "Pending", kind |-> "", line |-> 0]
Ok == [tag |-> "Ok", kind |-> "", line |-> 0]
Err(kind, n) == [tag |-> "Err", kind |-> kind, line |-> n]

\* ------------------------------------------------------------ key lines
\* split_key_value with the value part left untrimmed
split_key_value_untrimmed(line) ==
  LET idx == FindIn(line, Whitespace)
  IN IF idx > 0
     THEN [key_part |-> Trim(TakeChars(line, idx - 1)),
           val_part |-> DropChars(line, idx - 1)]
     ELSE [key_part |-> line, val_part |-> <<>>]

\* split_key_value ending the key part at the first space only
split_key_value_space(line) ==
  LET idx == FindIn(line, {" "})
  IN IF idx > 0
     THEN [key_part |-> Trim(TakeChars(line, idx - 1)),
           val_part |-> Trim(DropChars(line, idx - 1))]
     ELSE [key_part |-> line, val_part |-> <<>>]

\* Parser::split_key_value
split_key_value(line) ==
  LET idx == FindIn(line, Whitespace)
  IN IF idx > 0
     THEN [key_part |-> Trim(TakeChars(line, idx - 1)),
           val_part |-> Trim(DropChars(line, idx - 1))]
     ELSE [key_part |-> line, val_part |-> <<>>]

\* parse_key_and_type splitting the key part at its last "!"
parse_key_and_type_last(key_part) ==
  LET hits == {i \in 1..Len(key_part) : key_part[i] = "!"}
      idx == IF hits = {} THEN 0 ELSE CHOOSE i \in hits : \A j \in hits : i >= j
  IN IF idx > 0
     THEN [key |-> TakeChars(key_part, idx - 1),
           type_annotation |-> Some(DropChars(key_part, idx))]
     ELSE [key |-> key_part, type_annotation |-> None]

\* Parser::parse_key_and_type
parse_key_and_type(key_part) ==
  LET idx == FindIn(key_part, {"!"})
  IN IF idx > 0
     THEN [key |-> TakeChars(key_part, idx - 1),
           type_annotation |-> Some(DropChars(key_part, idx))]
     ELSE [key |-> key_part, type_annotation |-> None]

\* parse_value taking only a value part that is exactly the fence as a text
ValueFormExactFence(val_part) ==
  IF val_part = <<"{">> THEN "block"
  ELSE IF val_part = <<"[">> THEN "list"
  ELSE IF val_part = <<BT, BT, BT>> THEN "multiline"
  ELSE IF StartsWith(val_part, <<"[">>) /\ EndsWith(val_part, <<"]">>) THEN "inline"
  ELSE "scalar"

\* the arm of the match of Parser::parse_value that val_part selects
ValueForm(val_part) ==
  IF val_part = <<"{">> THEN "block"
  ELSE IF val_part = <<"[">> THEN "list"
  ELSE IF StartsWith(val_part, <<BT, BT, BT>>) THEN "multiline"
  ELSE IF StartsWith(val_part, <<"[">>) /\ EndsWith(val_part, <<"]">>) THEN "inline"
  ELSE "scalar"

\* parse_inline_list leaving out the segments that are empty once trimmed
parse_inline_list_nonempty(str) ==
  With(Trim(str), LAMBDA s0 :
    With(IF StartsWith(s0, <<"[">>) THEN DropChars(s0, 1) ELSE s0, LAMBDA s1 :
      With(IF EndsWith(s1, <<"]">>) THEN TakeChars(s1, Len(s1) - 1) ELSE s1, LAMBDA s2 :
        With(SelectSeq(Split(s2, ","), LAMBDA p : Trim(p) # <<>>), LAMBDA kept :
          [ok |-> TRUE, items |-> [i \in 1..Len(kept) |-> VString(Trim(kept[i]))]]))))

\* parse_inline_list rejecting a segment that is empty once trimmed
parse_inline_list_strict(str) ==
  With(Trim(str), LAMBDA s0 :
    With(IF StartsWith(s0, <<"[">>) THEN DropChars(s0, 1) ELSE s0, LAMBDA s1 :
      With(IF EndsWith(s1, <<"]">>) THEN TakeChars(s1, Len(s1) - 1) ELSE s1, LAMBDA s2 :
        IF Trim(s2) = <<>>
        THEN [ok |-> TRUE, items |-> <<>>]
        ELSE With(Split(s2, ","), LAMBDA parts :
               [ok |-> \A i \in 1..Len(parts) : Trim(parts[i]) # <<>>,
                items |-> [i \in 1..Len(parts) |-> VString(Trim(parts[i]))]]))))

\* Parser::parse_inline_list; every path returns Ok
parse_inline_list(str) ==
  With(Trim(str), LAMBDA s0 :
    With(IF StartsWith(s0, <<"[">>) THEN DropChars(s0, 1) ELSE s0, LAMBDA s1 :
      With(IF EndsWith(s1, <<"]">>) THEN TakeChars(s1, Len(s1) - 1) ELSE s1, LAMBDA s2 :
        IF Trim(s2) = <<>>
        THEN [ok |-> TRUE, items |-> <<>>]
        ELSE With(Split(s2, ","), LAMBDA parts :
               [ok |-> TRUE, items |-> [i \in 1..Len(parts) |-> VString(Trim(parts[i]))]]))))

\* ------------------------------------------------------------ multiline text
\* str::parse::<usize>: an optional "+", then one or more decimal digits
\* (the annotations of the model have at most two digits: no overflow)
DecimalValue(ds) ==
  LET val[k \in 0..Len(ds)] ==
        IF k = 0 THEN 0 ELSE 10 * val[k - 1] + DigitVal(ds[k])
  IN val[Len(ds)]

ParseUsize(s) ==
  LET ds == IF Len(s) > 1 /\ s[1] = "+" THEN Tail(s) ELSE s
  IN IF ds # <<>> /\ \A i \in 1..Len(ds) : ds[i] \in Digits
     THEN [ok |-> TRUE, n |-> DecimalValue(ds)]
     ELSE [ok |-> FALSE, n |-> 0]

\* Parser::dedent
dedent(text, amount) ==
  With(StrLines(text), LAMBDA ls :
    JoinNL([i \in 1..Len(ls) |->
              IF Len(ls[i]) >= amount THEN DropChars(ls[i], amount) ELSE ls[i]]))

\* parse_multiline taking an annotation that is no integer as a dedent of 0
MultilineTextLenient(content, type_annotation) ==
  With(JoinNL(content), LAMBDA text :
    IF type_annotation.some
    THEN dedent(text, ParseUsize(type_annotation.v).n)
    ELSE text)

\* Parser::parse_multiline after its loop: the join and the optional dedent
MultilineText(content, type_annotation) ==
  With(JoinNL(content), LAMBDA text :
    IF type_annotation.some /\ ParseUsize(type_annotation.v).ok
    THEN dedent(text, ParseUsize(type_annotation.v).n)
    ELSE text)

\* ------------------------------------------------------------ call frames
\* One open call of parse_block / parse_list / parse_multiline: its local
\* accumulator (block: m, list: l, multiline: content), the key and annotation
\* of the key line that opened it, and the 1-based number of that line.
Frame(kind, key, ann, open) ==
  [kind |-> kind, key |-> key, ann |-> ann, open |-> open,
   m |-> EmptyMap, l |-> <<>>, content |-> <<>>]

\* the value a frame returns (lines 187-196, 221, 254)
FrameValue(f) ==
  IF f.kind = "block" THEN VBlock(f.m)
  ELSE IF f.kind = "list" THEN VList(f.l)
  ELSE VString(MultilineText(f.content, f.ann))

\* Deliver with the list parser putting the value in front of its elements
DeliverFront(st, ns, key, ann, value) ==
  IF st = <<>>
  THEN [ok |-> TRUE, stack |-> st, nodes |-> Append(ns, Node(key, ann, value))]
  ELSE IF st[Len(st)].kind = "block"
  THEN [ok |-> TRUE, nodes |-> ns,
        stack |-> [st EXCEPT ![Len(st)].m = MapInsert(@, key, value)]]
  ELSE [ok |-> TRUE, nodes |-> ns,
        stack |-> [st EXCEPT ![Len(st)].l = <<value>> \o @]]

\* What the caller does with a parsed (key, annotation, value): the top-level
\* loop pushes a Node, parse_block inserts key -> value, parse_list pushes
\* the value.
Deliver(st, ns, key, ann, value) ==
  IF st = <<>>
  THEN [ok |-> TRUE, stack |-> st, nodes |-> Append(ns, Node(key, ann, value))]
  ELSE IF st[Len(st)].kind = "block"
  THEN [ok |-> TRUE, nodes |-> ns,
        stack |-> [st EXCEPT ![Len(st)].m = MapInsert(@, key, value)]]
  ELSE [ok |-> TRUE, nodes |-> ns,
        stack |-> [st EXCEPT ![Len(st)].l = Append(@, value)]]

Failed(st, ns) == [ok |-> FALSE, stack |-> st, nodes |-> ns]

\* Parser::parse_value for the key line of number n, with the frames st of
\* the caller: a block, list or multiline value opens a frame, the other
\* forms are complete at once
parse_value(st, ns, key, ann, val_part, n) ==
  IF ValueForm(val_part) \in {"block", "list", "multiline"}
  THEN [ok |-> TRUE, nodes |-> ns,
        stack |-> Append(st, Frame(ValueForm(val_part), key, ann, n))]
  ELSE IF ValueForm(val_part) = "inline"
  THEN IF parse_inline_list(val_part).ok
       THEN Deliver(st, ns, key, ann, VList(parse_inline_list(val_part).items))
       ELSE Failed(st, ns)
  ELSE Deliver(st, ns, key, ann, VString(val_part))

\* Parser::parse_line
parse_line(st, ns, line, n) ==
  With(split_key_value(line), LAMBDA kv :
    With(parse_key_and_type(kv.key_part), LAMBDA kt :
      parse_value(st, ns, kt.key, kt.type_annotation, kv.val_part, n)))

IsSkipped(trimmed) == trimmed = <<>> \/ StartsWith(trimmed, <<"#">>)

NoReturn ==
  [kind |-> "none", open |-> 0, close |-> 0, eof |-> FALSE, ann |-> None,
   content |-> <<>>, value |-> VString(<<>>)]

\* the innermost frame returns: its value goes to its caller; close is the
\* number of the line that ended its loop, Len(lines) + 1 at the end of input
Returned(f, close, eof) ==
  [kind |-> f.kind, open |-> f.open, close |-> close, eof |-> eof, ann |-> f.ann,
   content |-> f.content, value |-> FrameValue(f)]

Top == stack[Len(stack)]

\* a return that ends every open construct, not the innermost only
CallersNone == <<>>

Callers == SubSeq(stack, 1, Len(stack) - 1)

\* the effect r of one step on the frames and the nodes; an Err from below
\* is wrapped by the top-level loop with the number of its key line
Apply(r, kl) ==
  IF r.ok
  THEN /\ stack' = r.stack
       /\ nodes' = r.nodes
       /\ UNCHANGED <<pc, result>>
  ELSE /\ stack' = <<>>
       /\ nodes' = r.nodes
       /\ pc' = "done"
       /\ result' = Err("InvalidSyntax", kl)

Return(eof) ==
  /\ ret' = Returned(Top, IF eof THEN Len(lines) + 1 ELSE pos', eof)
  /\ \E r \in {Deliver(Callers, nodes, Top.key, Top.ann, FrameValue(Top))} : Apply(r, keyLine)
  /\ UNCHANGED keyLine

\* ------------------------------------------------------------ actions
\* In the actions, \E x \in {e} binds x to the value of e, as a let of the
\* code does.
\* a loop looking at the next line without taking it from the cursor
AdvancedPeek(p) == p

\* Iterator::next on the shared cursor: the position after one more line
Advanced(p) == p + 1

\* one iteration of the loop of parse_document (lines 105-117)
ReadTop ==
  /\ pc = "run" /\ stack = <<>> /\ pos < Len(lines)
  /\ pos' = Advanced(pos)
  /\ LET line == lines[pos + 1]
     IN IF IsSkipped(Trim(line))
        THEN UNCHANGED <<stack, nodes, keyLine, pc, result>>
        ELSE /\ keyLine' = pos + 1
             /\ \E r \in {parse_line(stack, nodes, line, pos + 1)} : Apply(r, pos + 1)
  /\ UNCHANGED <<lines, ret>>

\* one iteration of the loop of parse_block (lines 205-219)
ReadBlock ==
  /\ pc = "run" /\ stack # <<>> /\ Top.kind = "block" /\ pos < Len(lines)
  /\ pos' = Advanced(pos)
  /\ \E trimmed \in {Trim(lines[pos + 1])} :
        IF trimmed = <<"}">>
        THEN Return(FALSE)
        ELSE IF IsSkipped(trimmed)
        THEN UNCHANGED <<stack, nodes, keyLine, ret, pc, result>>
        ELSE /\ \E r \in {parse_line(stack, nodes, trimmed, pos + 1)} : Apply(r, keyLine)
             /\ UNCHANGED <<keyLine, ret>>
  /\ UNCHANGED lines

\* the element a line of a bracketed list gives (lines 243-251)
ListElement(st, ns, trimmed, n) ==
  LET inl == parse_inline_list(trimmed)
  IN IF StartsWith(trimmed, <<"[">>) /\ EndsWith(trimmed, <<"]">>)
     THEN IF inl.ok THEN Deliver(st, ns, <<>>, None, VList(inl.items))
          ELSE Failed(st, ns)
     ELSE IF StartsWith(trimmed, <<"{">>)
     THEN [ok |-> TRUE, nodes |-> ns,
           stack |-> Append(st, Frame("block", <<>>, None, n))]
     ELSE Deliver(st, ns, <<>>, None, VString(trimmed))

\* one iteration of the loop of parse_list (lines 230-252)
ReadList ==
  /\ pc = "run" /\ stack # <<>> /\ Top.kind = "list" /\ pos < Len(lines)
  /\ pos' = Advanced(pos)
  /\ \E trimmed \in {Trim(lines[pos + 1])} :
        IF trimmed = <<"]">>
        THEN Return(FALSE)
        ELSE IF IsSkipped(trimmed)
        THEN UNCHANGED <<stack, nodes, keyLine, ret, pc, result>>
        ELSE /\ \E r \in {ListElement(stack, nodes, trimmed, pos + 1)} : Apply(r, keyLine)
             /\ UNCHANGED <<keyLine, ret>>
  /\ UNCHANGED lines

\* one iteration of the loop of parse_multiline (lines 179-185); at the
\* terminator the rest of the function (lines 187-196) runs
ReadMultiline ==
  /\ pc = "run" /\ stack # <<>> /\ Top.kind = "multiline" /\ pos < Len(lines)
  /\ pos' = Advanced(pos)
  /\ LET line == lines[pos + 1]
     IN IF Trim(line) = <<BT, BT, BT>>
        THEN Return(FALSE)
        ELSE /\ stack' = [stack EXCEPT ![Len(stack)].content = Append(@, line)]
             /\ UNCHANGED <<nodes, keyLine, ret, pc, result>>
  /\ UNCHANGED lines

\* the end of input inside an open construct reported as an error
EofReturnUnexpected ==
  /\ pc = "run" /\ stack # <<>> /\ pos = Len(lines)
  /\ pc' = "done"
  /\ result' = Err("UnexpectedEof", 0)
  /\ stack' = <<>>
  /\ UNCHANGED <<lines, pos, nodes, keyLine, ret>>

\* the end of input inside an open construct dropping the construct
EofReturnDiscard ==
  /\ pc = "run" /\ stack # <<>> /\ pos = Len(lines)
  /\ stack' = Callers
  /\ ret' = Returned(Top, Len(lines) + 1, TRUE)
  /\ UNCHANGED <<lines, pos, nodes, keyLine, pc, result>>

\* the cursor is exhausted: the loop of the innermost open parser gets None
\* and the parser returns what it has
EofReturn ==
  /\ pc = "run" /\ stack # <<>> /\ pos = Len(lines)
  /\ pos' = pos
  /\ Return(TRUE)
  /\ UNCHANGED lines

\* the cursor is exhausted at top level: Ok(Document { nodes }) (line 119)
Finish ==
  /\ pc = "run" /\ stack = <<>> /\ pos = Len(lines)
  /\ pc' = "done"
  /\ result' = Ok
  /\ UNCHANGED <<lines, pos, stack, nodes, keyLine, ret>>

Next == ReadTop \/ ReadBlock \/ ReadList \/ ReadMultiline \/ EofReturn \/ Finish

\* ------------------------------------------------------------ inputs
Inputs(pool) == UNION {[1..n -> pool] : n \in 0..MaxLines}

InitWith(inputs) ==
  /\ lines \in inputs
  /\ pos = 0
  /\ stack = <<>>
  /\ nodes = <<>>
  /\ keyLine = 0
  /\ ret = NoReturn
  /\ pc = "run"
  /\ result = Pending

\* documents of scalars, blocks, lists and multiline texts
DocPool ==
  { <<"a", " ", "1">>,
    <<"a", "!", "i", " ", "2">>,
    <<>>,
    <<"#", "c">>,
    <<"b", " ", "{">>,
    <<"}">>,
    <<"c", " ", "[">>,
    <<"]">>,
    <<"d", " ", BT, BT, BT>> }

Init == InitWith(Inputs(DocPool))

Spec == Init /\ [][Next]_vars

\* the scheduling of a sequential program: a step that can be taken is taken
\* nested and unterminated constructs
NestPool ==
  { <<"b", " ", "{">>,
    <<"}">>,
    <<"c", " ", "[">>,
    <<"]">>,
    <<"{">>,
    <<"d", " ", BT, BT, BT>> }

InitNest == InitWith(Inputs(NestPool))

FairSpec == InitNest /\ [][Next]_vars /\ WF_vars(Next)

\* multiline texts: a numeric, a non-integer and no annotation, content lines
\* longer and shorter than the dedent amount, blank and comment lines
TextPool ==
  { <<"a", "!", "2", " ", BT, BT, BT>>,
    <<"b", "!", "i", " ", BT, BT, BT>>,
    <<"c", " ", BT, BT, BT>>,
    <<BT, BT, BT>>,
    <<>>,
    <<"#">>,
    <<" ", " ", "x", "y">>,
    <<"b", " ", "{">>,
    <<"c", " ", "[">> }

InitText == InitWith(Inputs(TextPool))

SpecText == InitText /\ [][Next]_vars

\* bracketed lists: plain, indented, bracketed and block elements
ListPool ==
  { <<"c", " ", "[">>,
    <<"]">>,
    <<"x">>,
    <<" ", "y", " ", "z">>,
    <<"[", "x", ",", " ", "y", "]">>,
    <<"{">>,
    <<"}">>,
    <<>>,
    <<"#", "c">>,
    <<"d", " ", BT, BT, BT>> }

InitList == InitWith(Inputs(ListPool))

SpecList == InitList /\ [][Next]_vars

\* one key line "k <value part>" for every value part of at most MaxVal
\* characters, followed by one more line
ValAlphabet == {"{", "[", "]", BT, "x", " "}
ValueTexts == UNION {[1..n -> ValAlphabet] : n \in 0..MaxVal}

InitValue ==
  InitWith({<< <<"k", " ">> \o v, <<"x", " ", "y">> >> : v \in ValueTexts})

SpecValue == InitValue /\ [][Next]_vars

\* one key line of at most MaxKey characters, with and without leading
\* whitespace, "!" and a value: read at top level (after a blank line), in a
\* block, in a bracketed list and in a multiline text, and followed by a
\* closing line or by an indented key line
KeyAlphabet == {"a", "{", "!", " ", "\t"}
KeyTexts == UNION {[1..n -> KeyAlphabet] : n \in 0..MaxKey}

KeyOpeners ==
  { <<>>,
    <<"b", " ", "{">>,
    <<"c", " ", "[">>,
    <<"d", "!", "1", " ", BT, BT, BT>> }

KeyClosers ==
  { <<"}">>,
    <<" ", "x", "\t", "y">> }

InitKey ==
  InitWith({<<o, t, c>> : o \in KeyOpeners, t \in KeyTexts, c \in KeyClosers})

SpecKey == InitKey /\ [][Next]_vars

\* one bracketed text "[...]" with an interior of at most MaxInner
\* characters, as the value part of a key line and as a line of its own: read
\* at top level (after a blank line), in a block, in a bracketed list and in
\* a multiline text, and followed by a line "]"
InnerAlphabet == {"x", "y", ",", " ", "[", "]"}
InnerTexts == UNION {[1..n -> InnerAlphabet] : n \in 0..MaxInner}
BracketTexts == {<<"[">> \o t \o <<"]">> : t \in InnerTexts}

InitInline ==
  InitWith({<<o, p \o t, <<"]">> >> :
              o \in KeyOpeners, p \in {<<>>, <<"k", " ">>}, t \in BracketTexts})

SpecInline == InitInline /\ [][Next]_vars

\* every value form: inline lists (one with an empty segment), blocks,
\* bracketed lists, multiline texts with a dedent, closed and left open at
\* the end of input; the bracketed line is a scalar key line at top level
\* and in a block, and an inline list in a bracketed list
FormPool ==
  { <<"a", " ", "[", "x", ",", "]">>,
    <<"[", "x", ",", " ", "y", "]">>,
    <<"b", " ", "{">>,
    <<"}">>,
    <<"c", " ", "[">>,
    <<"]">>,
    <<"d", "!", "1", " ", BT, BT, BT>> }

InitForms == InitWith(Inputs(FormPool))

\* the scheduling of a sequential program: a step that can be taken is taken
FairForms == InitForms /\ [][Next]_vars /\ WF_vars(Next)

\* ============================================================ properties
Range(f) == {f[i] : i \in DOMAIN f}

\* a line the skipping loops pass over: its trimmed text is empty or starts with #
BlankOrComment(line) ==
  \/ \A i \in 1..Len(line) : line[i] \in Whitespace
  \/ \E i \in 1..Len(line) :
       /\ line[i] = "#"
       /\ \A j \in 1..(i - 1) : line[j] \in Whitespace

\* the text of a line after its first whitespace character, trimmed
AfterFirstWhitespace(line) ==
  LET ws == {i \in 1..Len(line) : line[i] \in Whitespace}
  IN IF ws = {} THEN <<>>
     ELSE Trim(DropChars(line, CHOOSE i \in ws : \A j \in ws : i <= j))

\* the leading characters of a line up to its first whitespace or "!"
LeadingKey(line) ==
  LET stop == {i \in 1..Len(line) : line[i] \in Whitespace \cup {"!"}}
  IN IF stop = {} THEN line
     ELSE TakeChars(line, (CHOOSE i \in stop : \A j \in stop : i <= j) - 1)

\* a scalar key line: not blank, not a comment, no leading whitespace, and a
\* value part that is none of {, [, a fenced text, a bracketed list
ScalarKeyLine(line) ==
  /\ ~BlankOrComment(line)
  /\ line[1] \notin Whitespace
  /\ LET v == AfterFirstWhitespace(line)
     IN /\ v # <<"{">>
        /\ v # <<"[">>
        /\ ~StartsWith(v, <<BT, BT, BT>>)
        /\ ~(StartsWith(v, <<"[">>) /\ EndsWith(v, <<"]">>))

AllScalarInput == \A i \in 1..Len(lines) : ScalarKeyLine(lines[i])

\* C1: an input of scalar key lines only parses to Ok with one node per line,
\* node i holding the key and the String value of line i.
C1_ScalarDocument ==
  (pc = "done" /\ AllScalarInput) =>
    /\ result = Ok
    /\ Len(nodes) = Len(lines)
    /\ \A i \in 1..Len(lines) :
         /\ nodes[i].key = LeadingKey(lines[i])
         /\ nodes[i].value = VString(AfterFirstWhitespace(lines[i]))

C1_Witness ==
  /\ pc = "done" /\ AllScalarInput /\ Len(lines) = 3
  /\ nodes[1].value.s # nodes[2].value.s
  /\ nodes[2].key # nodes[3].key

\* ------------------------------------------------------------ multiline
NumericAnnotation(ann) == ann.some /\ ParseUsize(ann.v).ok

IsSuffix(t, s) == Len(t) <= Len(s) /\ DropChars(s, Len(s) - Len(t)) = t

IsFence(line) == Trim(line) = <<BT, BT, BT>>

\* a step that reads a blank or comment line at top level, in a block or in
\* a bracketed list changes neither the nodes nor any open block or list
C2_SkipStep ==
  ( /\ pc = "run" /\ pos < Len(lines)
    /\ BlankOrComment(lines[pos + 1])
    /\ (stack = <<>> \/ Top.kind \in {"block", "list"}) )
  => (nodes' = nodes /\ stack' = stack)

\* the text a multiline block returned has one line per line read inside it,
\* and the line of each blank or comment line read is that line or an end of it
C2_ContentKept ==
  ret.kind = "multiline" =>
    LET inside == SubSeq(lines, ret.open + 1, ret.close - 1)
        pieces == Split(ret.value.s, NL)
    IN IF inside = <<>> THEN ret.value.s = <<>>
       ELSE /\ Len(pieces) = Len(inside)
            /\ \A i \in 1..Len(inside) :
                 BlankOrComment(inside[i]) => IsSuffix(pieces[i], inside[i])

\* C2: a blank or comment line never produces a node, a block entry or a list
\* element at top level, in a block or in a bracketed list, and is always part
\* of the stored content when it is read inside a multiline text block.
C2_BlankAndComment == [][C2_SkipStep]_vars /\ [](C2_ContentKept)

DedentLine(line, n) == IF Len(line) >= n THEN DropChars(line, n) ELSE line

\* C3: with a numeric annotation N the stored text is the newline-join of the
\* content lines, each dedented on its own: N characters shorter when it has
\* at least N, unchanged otherwise; one line per content line.
C3_PerLineDedent ==
  (ret.kind = "multiline" /\ NumericAnnotation(ret.ann)) =>
    ret.value =
      VString(JoinNL([i \in 1..Len(ret.content) |->
                        DedentLine(ret.content[i], ParseUsize(ret.ann.v).n)]))

\* the first fence line after line n, Len(lines) + 1 when there is none
FirstFenceAfter(n) ==
  LET fs == {i \in (n + 1)..Len(lines) : IsFence(lines[i])}
  IN IF fs = {} THEN Len(lines) + 1 ELSE CHOOSE i \in fs : \A j \in fs : i <= j

\* C4: with no annotation or a non-integer one, the stored String is the
\* newline-join of the raw lines strictly between the opening key line and
\* the first following fence line.
C4_RawContent ==
  (ret.kind = "multiline" /\ ~ret.eof /\ ~NumericAnnotation(ret.ann)) =>
    LET t == FirstFenceAfter(ret.open)
        raw == VString(JoinNL(SubSeq(lines, ret.open + 1, t - 1)))
    IN /\ ret.close = t
       /\ ret.value = raw
       /\ (pos = ret.close /\ stack = <<>>) => nodes[Len(nodes)].value = raw

C4_Witness ==
  /\ ret.kind = "multiline" /\ ~ret.eof
  /\ ret.ann = Some(<<"i">>)
  /\ pos = ret.close /\ stack = <<>>
  /\ ret.content = << <<" ", " ", "x", "y">>, <<>> >>

\* ------------------------------------------------------------ blocks
\* the numbers of the lines strictly inside the construct that returned last
Inside == (ret.open + 1)..(ret.close - 1)

\* every line inside the returned block is blank, a comment or a scalar key line
FlatBlock ==
  /\ ret.kind = "block"
  /\ \A i \in Inside :
       BlankOrComment(lines[i]) \/ ScalarKeyLine(Trim(lines[i]))

KeyLinesInside == {i \in Inside : ~BlankOrComment(lines[i])}

\* a flat block maps exactly the keys of its key lines, each to the value of
\* the last line with that key
C5_FlatBlock ==
  FlatBlock =>
    /\ ret.value.tag = "Block"
    /\ DOMAIN ret.value.m = {LeadingKey(Trim(lines[i])) : i \in KeyLinesInside}
    /\ \A i \in KeyLinesInside :
         (\A j \in KeyLinesInside :
            LeadingKey(Trim(lines[j])) = LeadingKey(Trim(lines[i])) => j <= i)
         => ret.value.m[LeadingKey(Trim(lines[i]))] =
              VString(AfterFirstWhitespace(Trim(lines[i])))

\* a step changes the mapping of an open block only by setting one key: to
\* the value of the key line it read, or to the value the nested parser
\* returned for the key that opened it; every other entry stays
C5_InsertStep ==
  \A d \in 1..Len(stack) :
    ( /\ stack[d].kind = "block"
      /\ d <= Len(stack')
      /\ stack'[d].open = stack[d].open
      /\ stack'[d].m # stack[d].m )
    => \E k \in DOMAIN stack'[d].m :
         /\ DOMAIN stack'[d].m = (DOMAIN stack[d].m) \cup {k}
         /\ \A x \in (DOMAIN stack[d].m) \ {k} : stack'[d].m[x] = stack[d].m[x]
         /\ IF Len(stack') < Len(stack)
            THEN /\ d = Len(stack')
                 /\ k = Top.key
                 /\ stack'[d].m[k] = ret'.value
            ELSE /\ d = Len(stack)
                 /\ k = LeadingKey(Trim(lines[pos + 1]))
                 /\ stack'[d].m[k].tag \in {"String", "List"}

\* C5: a block has one entry per distinct key, and a key that appears on
\* several key lines maps to the value parsed from the last of them.
C5_LastWins == [][C5_InsertStep]_vars /\ [](C5_FlatBlock)

C5_Witness ==
  /\ FlatBlock
  /\ \E i, j \in KeyLinesInside :
       /\ i < j
       /\ LeadingKey(Trim(lines[i])) = LeadingKey(Trim(lines[j]))
       /\ AfterFirstWhitespace(Trim(lines[i])) # AfterFirstWhitespace(Trim(lines[j]))
  /\ Cardinality(DOMAIN ret.value.m) = 1

\* ------------------------------------------------------------ lists
Bracketed(t) == StartsWith(t, <<"[">>) /\ EndsWith(t, <<"]">>)

\* every line inside the returned list is read by the list parser itself:
\* none opens a block
FlatList ==
  /\ ret.kind = "list"
  /\ \A i \in Inside : ~StartsWith(Trim(lines[i]), <<"{">>)

\* the comma-separated pieces of a bracketed line, trimmed
BracketItems(t) ==
  LET inner == SubSeq(t, 2, Len(t) - 1)
      ps == Split(inner, ",")
  IN IF Trim(inner) = <<>> THEN <<>>
     ELSE [i \in 1..Len(ps) |-> VString(Trim(ps[i]))]

\* the elements the lines ls give, in the order of the lines
RECURSIVE ElementsOf(_)
ElementsOf(ls) ==
  IF ls = <<>> THEN <<>>
  ELSE LET t == Trim(Head(ls))
       IN IF BlankOrComment(Head(ls)) THEN ElementsOf(Tail(ls))
          ELSE IF Bracketed(t) THEN <<VList(BracketItems(t))>> \o ElementsOf(Tail(ls))
          ELSE <<VString(t)>> \o ElementsOf(Tail(ls))

C6_FlatList ==
  FlatList =>
    /\ ret.value.tag = "List"
    /\ ret.value.l = ElementsOf(SubSeq(lines, ret.open + 1, ret.close - 1))

\* a step changes the elements of an open list only by adding one element at
\* the end: the element of the line it read, or the block that returned
C6_AppendStep ==
  \A d \in 1..Len(stack) :
    ( /\ stack[d].kind = "list"
      /\ d <= Len(stack')
      /\ stack'[d].open = stack[d].open
      /\ stack'[d].l # stack[d].l )
    => /\ Len(stack'[d].l) = Len(stack[d].l) + 1
       /\ SubSeq(stack'[d].l, 1, Len(stack[d].l)) = stack[d].l
       /\ IF Len(stack') < Len(stack)
          THEN /\ d = Len(stack')
               /\ Top.kind = "block"
               /\ stack'[d].l[Len(stack'[d].l)] = VBlock(Top.m)
          ELSE /\ d = Len(stack)
               /\ ~BlankOrComment(lines[pos + 1])
               /\ <<stack'[d].l[Len(stack'[d].l)]>> = ElementsOf(<<lines[pos + 1]>>)

\* C6: the elements of a bracketed list are in the order of the source lines
\* that produced them, one per non-blank, non-comment line the list parser
\* read before the closing line.
C6_ListOrder == [][C6_AppendStep]_vars /\ [](C6_FlatList)

C6_Witness ==
  /\ FlatList /\ ~ret.eof
  /\ Len(ret.value.l) = 2
  /\ ret.value.l[1].tag = "List"
  /\ ret.value.l[2] = VString(<<"y", " ", "z">>)

\* ------------------------------------------------------------ value forms
\* the first line is a key line without leading whitespace and has been
\* read, and nothing it opened has returned
FirstKeyLineRead ==
  /\ pos = 1
  /\ ret.kind = "none"
  /\ ~BlankOrComment(lines[1])
  /\ lines[1][1] \notin Whitespace

\* the key line opened a parser of this kind and produced no node yet
Opened(kind) ==
  /\ nodes = <<>>
  /\ Len(stack) = 1
  /\ stack[1].kind = kind
  /\ stack[1].open = 1

\* the key line produced its node at once
Produced(value) ==
  /\ stack = <<>>
  /\ Len(nodes) = 1
  /\ nodes[1].value = value

\* C7: the value part selects exactly one form: "{" a block, "[" a multiline
\* list, a prefix of three backticks a multiline text, "[...]" an inline list,
\* anything else the String of the value part verbatim.
C7_Dispatch ==
  FirstKeyLineRead =>
    LET v == AfterFirstWhitespace(lines[1])
    IN IF v = <<"{">> THEN Opened("block")
       ELSE IF v = <<"[">> THEN Opened("list")
       ELSE IF Len(v) >= 3 /\ v[1] = BT /\ v[2] = BT /\ v[3] = BT
       THEN Opened("multiline")
       ELSE IF Len(v) >= 1 /\ v[1] = "[" /\ v[Len(v)] = "]"
       THEN Produced(VList(BracketItems(v)))
       ELSE Produced(VString(v))

C7_Witness ==
  /\ FirstKeyLineRead
  /\ AfterFirstWhitespace(lines[1]) = <<BT, BT, BT, "x">>
  /\ Opened("multiline")

\* ------------------------------------------------------------ errors
\* C8: parse never returns UnexpectedEof or InvalidList; an Err is an
\* InvalidSyntax with the 1-based number of the top-level key line being
\* parsed, and it ends the parse.
C8_OnlyInvalidSyntax ==
  /\ result.tag \in {"Pending", "Ok", "Err"}
  /\ result.kind \notin {"UnexpectedEof", "InvalidList"}
  /\ (pc = "done") <=> (result.tag # "Pending")
  /\ result.tag = "Err" =>
       /\ result.kind = "InvalidSyntax"
       /\ result.line = keyLine
       /\ result.line \in 1..Len(lines)
       /\ stack = <<>>

C8_Witness ==
  /\ pc = "done"
  /\ result = Ok
  /\ ret.eof
  /\ ret.kind = "multiline"
  /\ keyLine >= 1

\* ------------------------------------------------------------ end of input
\* the value an open construct holds at the end of input, from what it
\* accumulated: the entries, the elements, or the lines after its opening line
HeldAtEof(f) ==
  LET raw == JoinNL(SubSeq(lines, f.open + 1, Len(lines)))
  IN IF f.kind = "block" THEN [tag |-> "Block", s |-> <<>>, m |-> f.m, l |-> <<>>]
     ELSE IF f.kind = "list" THEN [tag |-> "List", s |-> <<>>, m |-> <<>>, l |-> f.l]
     ELSE [tag |-> "String", m |-> <<>>, l |-> <<>>,
           s |-> IF NumericAnnotation(f.ann)
                 THEN dedent(raw, ParseUsize(f.ann.v).n)
                 ELSE raw]

\* at the end of input the innermost open construct ends without an error
\* and its caller gets what it held
C9_EofStep ==
  (pc = "run" /\ pos = Len(lines) /\ stack # <<>>) =>
    /\ result' = Pending
    /\ pc' = "run"
    /\ Len(stack') = Len(stack) - 1
    /\ IF Len(stack) = 1
       THEN nodes' = Append(nodes, Node(Top.key, Top.ann, HeldAtEof(Top)))
       ELSE LET c == stack[Len(stack) - 1]
                c2 == stack'[Len(stack) - 1]
            IN /\ nodes' = nodes
               /\ IF c.kind = "block"
                  THEN /\ Top.key \in DOMAIN c2.m
                       /\ c2.m[Top.key] = HeldAtEof(Top)
                  ELSE c2.l = Append(c.l, HeldAtEof(Top))

\* C9: input that ends inside an open block, list or multiline text raises
\* no error: parse returns Ok and the open construct holds what was
\* accumulated from the lines read.
C9_SilentEof == [][C9_EofStep]_vars /\ [](pc = "done" => result = Ok)

C9_Witness ==
  /\ pc = "done"
  /\ ret.eof
  /\ ret.kind = "block"
  /\ Cardinality(DOMAIN ret.value.m) = 2
  /\ nodes[Len(nodes)].value = ret.value

\* ------------------------------------------------------------ termination
\* what is left to do: lines to read, constructs to close, the result to give
Measure == 2 * (Len(lines) - pos) + Len(stack) + (IF pc = "run" THEN 1 ELSE 0)

\* a step takes at most one line, never moves the cursor back, and leaves
\* less to do
C10_Step ==
  /\ pos' \in {pos, pos + 1}
  /\ pos' = pos => pos = Len(lines)
  /\ Measure' < Measure

\* C10: parse terminates on every input: the cursor only moves forward, takes
\* each line at most once, and advances at most once per input line.
C10_Terminates ==
  /\ [][C10_Step]_vars
  /\ [](pos <= Len(lines) /\ Len(stack) <= pos)
  /\ <>(pc = "done")

C10_Witness ==
  /\ pc = "run"
  /\ pos = Len(lines)
  /\ Len(stack) >= 3


\* ------------------------------------------------------------ key lines
\* a value part that selects none of the block, list, multiline text and
\* inline list forms
ScalarText(v) ==
  /\ v # <<"{">>
  /\ v # <<"[">>
  /\ ~StartsWith(v, <<BT, BT, BT>>)
  /\ ~Bracketed(v)

\* the step reads a key line: at top level or inside a block, a line that is
\* neither blank nor a comment nor the closing line of the block
ReadsKeyLine ==
  /\ pc = "run" /\ pos < Len(lines)
  /\ ~BlankOrComment(lines[pos + 1])
  /\ \/ stack = <<>>
     \/ Top.kind = "block" /\ Trim(lines[pos + 1]) # <<"}">>

\* the text the reading loop hands to parse_line: the line as it is at top
\* level, the trimmed line inside a block
HandedLine == IF stack = <<>> THEN lines[pos + 1] ELSE Trim(lines[pos + 1])

\* s splits into the key k, the annotation a and the value part v: the key
\* part is s up to its first whitespace, v the trimmed rest, k the key part up
\* to its first "!", a the text after that "!" or absent
SplitsInto(s, k, a, v) ==
  \E i \in 0..Len(s) :
    /\ \A j \in 1..i : s[j] \notin Whitespace
    /\ i < Len(s) => s[i + 1] \in Whitespace
    /\ v = Trim(SubSeq(s, i + 1, Len(s)))
    /\ IF \A j \in 1..i : s[j] # "!"
       THEN k = SubSeq(s, 1, i) /\ a = None
       ELSE \E b \in 1..i :
              /\ s[b] = "!"
              /\ \A j \in 1..(b - 1) : s[j] # "!"
              /\ k = SubSeq(s, 1, b - 1)
              /\ a = Some(SubSeq(s, b + 1, i))

\* the step gives the key, the annotation and the value part of the text t
\* to what it produces: the frame it opens, the node it appends, or the entry
\* it sets; a scalar value is the String of the value part whatever the
\* annotation is
ProducesFrom(t) ==
  \E k \in {LeadingKey(t)} :
    \E v \in {AfterFirstWhitespace(t)} :
      IF Len(stack') > Len(stack)
      THEN /\ ~ScalarText(v)
           /\ stack'[Len(stack')].key = k
           /\ SplitsInto(t, k, stack'[Len(stack')].ann, v)
      ELSE IF stack = <<>>
      THEN /\ Len(nodes') = Len(nodes) + 1
           /\ nodes'[Len(nodes')].key = k
           /\ SplitsInto(t, k, nodes'[Len(nodes')].type_annotation, v)
           /\ nodes'[Len(nodes')].value.tag \in {"String", "List"}
           /\ ScalarText(v) => nodes'[Len(nodes')].value = VString(v)
      ELSE /\ k \in DOMAIN stack'[Len(stack')].m
           /\ \E a \in {None} \cup {Some(SubSeq(t, b, e)) :
                                     b \in 1..(Len(t) + 1), e \in 0..Len(t)} :
                SplitsInto(t, k, a, v)
           /\ ScalarText(v) => stack'[Len(stack')].m[k] = VString(v)

\* a step that reads a key line produces from the text handed to parse_line
C11_KeyStep == ReadsKeyLine => ProducesFrom(HandedLine)

\* C11: the key part of a key line is the text before its first whitespace
\* and the value part the trimmed remainder; the key is the key part up to
\* its first "!" and the annotation everything after that "!" verbatim, absent
\* without "!"; the annotation never changes a scalar value, a String.
C11_KeyAndAnnotation == [][C11_KeyStep]_vars

C11_Witness ==
  /\ pos = 2 /\ stack = <<>>
  /\ lines[2] = <<"a", "!", "!", "a", " ">>
  /\ nodes = <<Node(<<"a">>, Some(<<"!", "a">>), VString(<<>>))>>


\* ------------------------------------------------------------ inline lists
\* the pieces of s between its commas, from the left
RECURSIVE Segments(_)
Segments(s) ==
  IF \A i \in 1..Len(s) : s[i] # ","
  THEN <<s>>
  ELSE LET c == CHOOSE i \in 1..Len(s) : s[i] = "," /\ \A j \in 1..(i - 1) : s[j] # ","
       IN <<SubSeq(s, 1, c - 1)>> \o Segments(SubSeq(s, c + 1, Len(s)))

Commas(s) == Cardinality({i \in 1..Len(s) : s[i] = ","})

\* the List a bracketed text t gives: empty for an interior of whitespace
\* only, else the trimmed pieces of the interior as Strings
InlineValue(t) ==
  LET inner == SubSeq(t, 2, Len(t) - 1)
      segs == Segments(inner)
  IN IF \A i \in 1..Len(inner) : inner[i] \in Whitespace
     THEN [tag |-> "List", s |-> <<>>, m |-> <<>>, l |-> <<>>]
     ELSE [tag |-> "List", s |-> <<>>, m |-> <<>>,
           l |-> [i \in 1..Len(segs) |->
                    [tag |-> "String", s |-> Trim(segs[i]), m |-> <<>>, l |-> <<>>]]]

\* the bracketed text the step parses as an inline list, <<>> when it
\* parses none: the value part of a key line, or a line of a bracketed list
InlineRead ==
  IF ~(pc = "run" /\ pos < Len(lines)) \/ BlankOrComment(lines[pos + 1])
  THEN <<>>
  ELSE IF stack = <<>> \/ (Top.kind = "block" /\ Trim(lines[pos + 1]) # <<"}">>)
  THEN IF Bracketed(AfterFirstWhitespace(HandedLine))
       THEN AfterFirstWhitespace(HandedLine) ELSE <<>>
  ELSE IF Top.kind = "list" /\ Bracketed(Trim(lines[pos + 1]))
  THEN Trim(lines[pos + 1])
  ELSE <<>>

\* the value the step gave to the loop that read the line
ValueGiven ==
  IF stack = <<>> THEN nodes'[Len(nodes')].value
  ELSE IF Top.kind = "block" THEN stack'[Len(stack')].m[LeadingKey(HandedLine)]
  ELSE stack'[Len(stack')].l[Len(stack'[Len(stack')].l)]

C12_InlineStep ==
  InlineRead # <<>> =>
    /\ Len(stack') = Len(stack)
    /\ stack = <<>> => Len(nodes') = Len(nodes) + 1
    /\ stack # <<>> /\ Top.kind = "list" => Len(stack'[Len(stack')].l) = Len(Top.l) + 1
    /\ ValueGiven = InlineValue(InlineRead)
    /\ \/ ValueGiven.l = <<>>
       \/ /\ Len(ValueGiven.l) = Commas(InlineRead) + 1
          /\ \A i \in 1..Len(ValueGiven.l) :
               /\ ValueGiven.l[i].tag = "String"
               /\ \A j \in 1..Len(ValueGiven.l[i].s) : ValueGiven.l[i].s[j] # ","

\* C12: an inline list with an empty or whitespace-only interior is an empty
\* List; otherwise it has one String element per comma-separated segment
\* (k commas give k + 1 elements), each trimmed, in source order, none nested.
C12_InlineList == [][C12_InlineStep]_vars

C12_Witness ==
  /\ pos = 2 /\ stack = <<>>
  /\ lines[2] = <<"k", " ", "[", "x", ",", ",", "[", "]">>
  /\ Len(nodes) = 1
  /\ nodes[1].value.l = <<VString(<<"x">>), VString(<<>>), VString(<<"[">>)>>


\* ------------------------------------------------------------ keys
\* the keys of the Block mappings in a value, at every depth
RECURSIVE KeysIn(_)
KeysIn(v) ==
  IF v.tag = "Block"
  THEN (DOMAIN v.m) \cup UNION {KeysIn(v.m[k]) : k \in DOMAIN v.m}
  ELSE IF v.tag = "List"
  THEN UNION {KeysIn(v.l[i]) : i \in 1..Len(v.l)}
  ELSE {}

\* the keys of the document so far: of the nodes, of the key lines whose
\* construct is open, of the entries of the open blocks, and of every Block
\* inside a value held by any of them
AllKeys ==
  UNION ( {{nodes[i].key} \cup KeysIn(nodes[i].value) : i \in 1..Len(nodes)}
          \cup
          {{stack[d].key} \cup KeysIn(VBlock(stack[d].m)) \cup KeysIn(VList(stack[d].l)) :
             d \in 1..Len(stack)} )

\* C13: no key produced by parse contains a whitespace character: no key of
\* a top-level node and no key of a Block mapping, at any nesting depth.
C13_NoWhitespaceInKeys ==
  \A k \in AllKeys : \A i \in 1..Len(k) : k[i] \notin Whitespace

C13_Witness ==
  /\ pc = "done"
  /\ lines = << <<"b", " ", "{">>, <<"\t", "a", "\t", "{", " ">>, <<" ", "x", "\t", "y">> >>
  /\ AllKeys = {<<"b">>, <<"a">>, <<"x">>}
  /\ DOMAIN nodes[1].value.m[<<"a">>].m = {<<"x">>}


\* ------------------------------------------------------------ shared cursor
\* the closing line of a construct
Closer(kind) ==
  IF kind = "block" THEN <<"}">>
  ELSE IF kind = "list" THEN <<"]">>
  ELSE <<BT, BT, BT>>

\* 1 while a construct opened by a top-level key line is open
OpenAtTop == IF stack = <<>> THEN 0 ELSE 1

\* the step reads a key line while no construct is open
TopKeyLineRead ==
  /\ pc = "run" /\ stack = <<>> /\ pos < Len(lines)
  /\ ~BlankOrComment(lines[pos + 1])

\* the frame keeps being the same open call
SameCall(f, g) == f.kind = g.kind /\ f.open = g.open /\ f.key = g.key /\ f.ann = g.ann

\* One step over the shared cursor.  The line it takes is the next one and is
\* taken by the innermost open level; the levels below it are untouched,
\* except that the caller of a construct that returns gets its value.  A
\* construct opens at the line just read.  A closing line of the innermost
\* construct ends that construct only, and it is the only line that ends one
\* before the end of input.  The top-level nodes grow by one when a top-level
\* key line is complete: at once, or when what it opened returns.
C14_CursorStep ==
  LET n == Len(stack)
      n2 == Len(stack')
      closing == /\ pos < Len(lines) /\ n >= 1
                 /\ Trim(lines[pos + 1]) = Closer(Top.kind)
  IN /\ pos' = IF pc = "run" /\ pos < Len(lines) THEN pos + 1 ELSE pos
     /\ n2 \in {n - 1, n, n + 1}
     /\ \A d \in 1..(n - 2) : stack'[d] = stack[d]
     /\ n >= 2 => SameCall(stack'[n - 1], stack[n - 1])
     /\ (n >= 2 /\ n2 >= n) => stack'[n - 1] = stack[n - 1]
     /\ (n >= 1 /\ n2 >= n) => SameCall(stack'[n], stack[n])
     /\ n2 = n + 1 => stack'[n2].open = pos' /\ ~closing
     /\ n2 = n - 1 <=> (pc = "run" /\ n >= 1 /\ (closing \/ pos = Len(lines)))
     /\ n2 = n - 1 =>
          /\ ret'.open = Top.open /\ ret'.kind = Top.kind
          /\ ret'.eof = ~closing
          /\ closing => ret'.close = pos'
     /\ n2 # n - 1 => ret' = ret
     /\ nodes' # nodes =>
          /\ n <= 1 /\ n2 = 0
          /\ Len(nodes') = Len(nodes) + 1
          /\ SubSeq(nodes', 1, Len(nodes)) = nodes
     /\ Len(nodes') + (IF stack' = <<>> THEN 0 ELSE 1)
          = Len(nodes) + OpenAtTop + (IF TopKeyLineRead THEN 1 ELSE 0)

\* the open constructs opened one inside the other at lines already taken;
\* the construct that returned last at a closing line took the lines up to
\* that line, and the cursor is at or after it
C14_CursorState ==
  /\ \A d \in 1..Len(stack) :
       /\ stack[d].open \in 1..pos
       /\ d > 1 => stack[d - 1].open < stack[d].open
  /\ (ret.kind # "none" /\ ~ret.eof) =>
       /\ ret.open < ret.close /\ ret.close <= pos
       /\ Trim(lines[ret.close]) = Closer(ret.kind)
       /\ \A d \in 1..Len(stack) : stack[d].open < ret.open \/ stack[d].open > ret.close
  /\ pc = "done" => stack = <<>>

\* C14: all nesting levels share one cursor: a line taken by a block, list or
\* multiline parser is never seen again by an enclosing level, a closing line
\* ends only the innermost open construct, and the enclosing level resumes at
\* the line right after it; the number of top-level nodes is the number of
\* key lines read while no construct is open.
C14_SharedCursor == [][C14_CursorStep]_vars /\ [](C14_CursorState)

C14_Witness ==
  /\ pc = "run"
  /\ Len(lines) = 4 /\ pos = 3
  /\ Len(stack) = 1 /\ stack[1].kind = "block" /\ stack[1].open = 1
  /\ ret.kind = "list" /\ ~ret.eof /\ ret.open = 2 /\ ret.close = 3
  /\ lines[4] = <<"}">>
  /\ nodes = <<>>


\* ------------------------------------------------------------ indentation
\* a step that reads a key line inside a block produces from the line
\* without its indentation
C15_BlockStep ==
  (ReadsKeyLine /\ stack # <<>>) => ProducesFrom(Trim(lines[pos + 1]))

\* a step that reads a key line at top level produces from the line without
\* its indentation, and the key line has a first token
C15_TopStep ==
  (ReadsKeyLine /\ stack = <<>>) =>
    /\ ProducesFrom(Trim(lines[pos + 1]))
    /\ IF stack' = <<>>
       THEN nodes'[Len(nodes')].key # <<>> \/ nodes'[Len(nodes')].type_annotation # None
       ELSE stack'[1].key # <<>> \/ stack'[1].ann # None

\* C15: leading whitespace on a key line does not change the parsed node: an
\* indented top-level key line yields the key, annotation and value of the
\* same line without indentation, as an indented key line inside a block
\* does; the key is the first whitespace-delimited token, not empty.
C15_LeadingWhitespace == [][C15_TopStep]_vars /\ [][C15_BlockStep]_vars


\* ------------------------------------------------------------ totality
\* C16: parse is total and never rejects: on every input it returns
\* Ok(Document); no step of any value form (scalar, block, list, inline list,
\* multiline text) gives an error, so the Err branch of the top-level loop is
\* never taken.
C16_Total ==
  /\ [][result'.tag # "Err"]_vars
  /\ [](pc = "done" => (result = Ok /\ stack = <<>> /\ pos = Len(lines)))
  /\ <>(pc = "done" /\ result = Ok)

C16_Witness ==
  /\ pc = "done" /\ result = Ok
  /\ Len(lines) = 4
  /\ lines[1] = <<"a", " ", "[", "x", ",", "]">>
  /\ nodes[1].value = VList(<<VString(<<"x">>), VString(<<>>)>>)
  /\ lines[3] = <<"[", "x", ",", " ", "y", "]">>
  /\ ret.kind = "list" /\ ret.eof
  /\ Len(nodes) = 2
  /\ nodes[2].value.l[1].tag = "List"

====
